---- MODULE Spec2Model ----
(***************************************************************************)
(* A model of the zim crate (src/src/lib.rs): a reader of ZIM archives.    *)
(*                                                                         *)
(* The archive is a sequence of bytes (the memory-mapped file).  Zim::new  *)
(* parses the header and the offset tables out of these bytes, and the     *)
(* lookups (get_by_url_index, get_cluster, Cluster::get_blob, the          *)
(* DirectoryIterator) decode directory entries and clusters from them.     *)
(*                                                                         *)
(* Representation of the integers.  TLC's integers are 32-bit signed, so   *)
(* a u32 that the program keeps as a VALUE (main_page, layout_page,        *)
(* revision, redirect target, cluster and blob numbers, blob offsets) is   *)
(* kept as its four little-endian bytes; a quantity the program uses as    *)
(* an ADDRESS or a COUNT (file offsets, article_count, sizes) is           *)
(* converted with AsUsize, which is exact below 2^24 and saturates at      *)
(* Huge above: every file of the model is far shorter than Huge, so an     *)
(* address at or above Huge behaves like any address past the end.         *)
(***************************************************************************)
EXTENDS Integers, Sequences, FiniteSets, TLC

VARIABLES
    file,            \* the bytes of the mapped archive file (Zim.master_view)
    overflowChecks,  \* build profile: TRUE = arithmetic overflow panics (debug)
    status,          \* "unopened" | "open" | "error" (Zim::new gave Err) | "panic"
    zim,             \* the fields of the Zim struct once status = "open"
    tablesLoaded,    \* how many offset tables Zim::new had loaded when it ended
    iter,            \* the DirectoryIterator held by the caller
    cluster,         \* the Cluster held by the caller (last get_cluster result)
    blobs,           \* the get_blob results obtained from `cluster`, by blob index
    last             \* the last call made and what it returned

vars == <<file, overflowChecks, status, zim, tablesLoaded, iter, cluster, blobs, last>>

----------------------------------------------------------------------------
(* Bytes and little-endian integers (byteorder::LittleEndian)               *)

Byte == 0..255

\* 2^24: the saturation point of AsUsize.
Huge == 16777216

Min(S) == CHOOSE x \in S : \A y \in S : x <= y

RECURSIVE LE(_, _)
\* The k little-endian bytes of the natural number n (n < 2^31).
LE(n, k) == IF k = 0 THEN <<>> ELSE <<n % 256>> \o LE(n \div 256, k - 1)

\* A little-endian byte string as an address or a count.
AsUsize(b) ==
    IF \A i \in 4..Len(b) : b[i] = 0
    THEN (IF Len(b) >= 1 THEN b[1] ELSE 0)
         + (IF Len(b) >= 2 THEN 256 * b[2] ELSE 0)
         + (IF Len(b) >= 3 THEN 65536 * b[3] ELSE 0)
    ELSE Huge

\* Unsigned comparison a < b of two little-endian byte strings of one width.
RECURSIVE LtLE(_, _)
LtLE(a, b) ==
    IF Len(a) = 0 THEN FALSE
    ELSE LET n == Len(a)
         IN  IF a[n] # b[n] THEN a[n] < b[n]
             ELSE LtLE(SubSeq(a, 1, n - 1), SubSeq(b, 1, n - 1))

LeLE(a, b) == a = b \/ LtLE(a, b)

----------------------------------------------------------------------------
(* Option and Result values                                                 *)

None == [kind |-> "None"]
Some(v) == [kind |-> "Some", val |-> v]
Ok(v) == [kind |-> "Ok", val |-> v]
Err(m) == [kind |-> "Err", msg |-> m]
\* A panic: the call does not return, the thread unwinds.
Panic(m) == [kind |-> "Panic", msg |-> m]

\* Result::ok(): Ok(v) -> Some(v), Err(_) -> None; a panic is not a value.
ResultOk(r) == IF r.kind = "Ok" THEN Some(r.val)
               ELSE IF r.kind = "Err" THEN None ELSE r

----------------------------------------------------------------------------
(* std::io::Cursor over a byte slice: pos is the number of bytes consumed   *)

\* read_u8 / read_u16 / read_u32 / read_u64: n bytes, or Err at end of input.
ReadExact(s, pos, n) ==
    IF pos + n <= Len(s)
    THEN [ok |-> TRUE, val |-> SubSeq(s, pos + 1, pos + n), pos |-> pos + n]
    ELSE [ok |-> FALSE, val |-> <<>>, pos |-> pos]

\* BufRead::read_until(delim, &mut vec): the bytes up to and including the
\* first delim, or all the remaining bytes when there is none; never fails
\* on a Cursor.  size is the number of bytes read.
ReadUntil(s, pos, delim) ==
    LET hits == {j \in (pos + 1)..Len(s) : s[j] = delim}
    IN  IF hits = {}
        THEN [vec |-> SubSeq(s, pos + 1, Len(s)), size |-> Len(s) - pos, pos |-> Len(s)]
        ELSE [vec |-> SubSeq(s, pos + 1, Min(hits)), size |-> Min(hits) - pos,
              pos |-> Min(hits)]

\* vec.truncate(size - 1) on usize: size = 0 overflows, which panics in a
\* build with overflow checks and wraps to usize::MAX (truncate then keeps
\* the vector) in a build without.
TruncateSizeMinus1(vec, size, checks) ==
    IF size = 0
    THEN (IF checks THEN Panic("attempt to subtract with overflow") ELSE Ok(vec))
    ELSE Ok(SubSeq(vec, 1, size - 1))

\* Is b a UTF-8 continuation byte in lo..hi?
Cont(s, i, lo, hi) == i <= Len(s) /\ s[i] >= lo /\ s[i] <= hi

RECURSIVE Utf8From(_, _)
\* String::from_utf8 succeeds on s[i..]: the well-formed byte sequences of
\* the Unicode standard (no overlong forms, no surrogates, at most U+10FFFF).
Utf8From(s, i) ==
    IF i > Len(s) THEN TRUE
    ELSE LET b == s[i]
         IN  IF b < 128 THEN Utf8From(s, i + 1)
             ELSE IF b >= 194 /\ b <= 223
                  THEN Cont(s, i + 1, 128, 191) /\ Utf8From(s, i + 2)
             ELSE IF b >= 224 /\ b <= 239
                  THEN /\ Cont(s, i + 1, IF b = 224 THEN 160 ELSE 128,
                                         IF b = 237 THEN 159 ELSE 191)
                       /\ Cont(s, i + 2, 128, 191)
                       /\ Utf8From(s, i + 3)
             ELSE IF b >= 240 /\ b <= 244
                  THEN /\ Cont(s, i + 1, IF b = 240 THEN 144 ELSE 128,
                                         IF b = 244 THEN 143 ELSE 191)
                       /\ Cont(s, i + 2, 128, 191)
                       /\ Cont(s, i + 3, 128, 191)
                       /\ Utf8From(s, i + 4)
             ELSE FALSE

Utf8Valid(s) == Utf8From(s, 1)

\* One string field of a directory entry or of the mime table, as the code
\* reads it: read_until(0), truncate(size - 1), String::from_utf8.
ReadString(s, pos, checks) ==
    LET r == ReadUntil(s, pos, 0)
        t == TruncateSizeMinus1(r.vec, r.size, checks)
    IN  IF t.kind = "Panic" THEN [res |-> t, pos |-> r.pos]
        ELSE IF Utf8Valid(t.val) THEN [res |-> Ok(t.val), pos |-> r.pos]
        ELSE [res |-> Err("Error converting to string"), pos |-> r.pos]

----------------------------------------------------------------------------
(* MimeType, Target, Zim::get_mimetype                                      *)

MimeRedirect == [t |-> "Redirect", name |-> <<>>]
MimeLinkTarget == [t |-> "LinkTarget", name |-> <<>>]
MimeDeletedEntry == [t |-> "DeletedEntry", name |-> <<>>]
MimeTypeOf(name) == [t |-> "Type", name |-> name]

TargetRedirect(v) == [t |-> "Redirect", a |-> v, b |-> <<>>]
TargetCluster(c, b) == [t |-> "Cluster", a |-> c, b |-> b]

\* The reserved mime ids.
MIME_REDIRECT == 65535
MIME_LINKTARGET == 65534
MIME_DELETED == 65533

\* Zim::get_mimetype(&self, id: u16) -> Option<MimeType>
get_mimetype(mime_table, id) ==
    IF id = MIME_REDIRECT THEN Some(MimeRedirect)
    ELSE IF id = MIME_LINKTARGET THEN Some(MimeLinkTarget)
    ELSE IF id = MIME_DELETED THEN Some(MimeDeletedEntry)
    ELSE IF id < Len(mime_table) THEN Some(MimeTypeOf(mime_table[id + 1]))
    ELSE None

----------------------------------------------------------------------------
(* DirectoryEntry::new(zim, s) -> Result<DirectoryEntry, ParsingError>      *)

EofErr == Err("Error reading bytestream")

\* The target fields without the branch for redirects: a redirect is read
\* as if it had a cluster and a blob number.
ReadTargetNoRedirect(s, mime_type) ==
    IF mime_type = MimeLinkTarget \/ mime_type = MimeDeletedEntry
    THEN [res |-> Ok(None), pos |-> 8]
    ELSE LET c == ReadExact(s, 8, 4)
             b == ReadExact(s, 12, 4)
         IN  IF c.ok /\ b.ok
             THEN [res |-> Ok(Some(TargetCluster(c.val, b.val))), pos |-> b.pos]
             ELSE [res |-> EofErr, pos |-> 8]

\* The target fields, read at cursor position 8: the target and the cursor
\* position after it, or the read error.
ReadTarget(s, mime_type) ==
    IF mime_type = MimeRedirect
    THEN LET r == ReadExact(s, 8, 4)
         IN  IF r.ok THEN [res |-> Ok(Some(TargetRedirect(r.val))), pos |-> r.pos]
             ELSE [res |-> EofErr, pos |-> 8]
    ELSE IF mime_type = MimeLinkTarget \/ mime_type = MimeDeletedEntry
    THEN [res |-> Ok(None), pos |-> 8]
    ELSE LET c == ReadExact(s, 8, 4)
             b == ReadExact(s, 12, 4)
         IN  IF c.ok /\ b.ok
             THEN [res |-> Ok(Some(TargetCluster(c.val, b.val))), pos |-> b.pos]
             ELSE [res |-> EofErr, pos |-> 8]

\* The URL and the title, read at cursor position pos.
ReadUrlTitle(s, pos, checks) ==
    LET u == ReadString(s, pos, checks)
    IN  IF u.res.kind # "Ok" THEN u.res
        ELSE LET t == ReadString(s, u.pos, checks)
             IN  IF t.res.kind # "Ok" THEN t.res
                 ELSE Ok([url |-> u.res.val, title |-> t.res.val])

DirectoryEntry_new(mime_table, s, checks) ==
    LET id == ReadExact(s, 0, 2)
    IN  IF ~id.ok THEN EofErr
        ELSE
        LET mt == get_mimetype(mime_table, AsUsize(id.val))
        IN  IF mt.kind = "None" THEN Err("No such Mimetype")
            ELSE
            LET pad == ReadExact(s, 2, 1)
                ns  == ReadExact(s, 3, 1)
                rev == ReadExact(s, 4, 4)
            IN  IF ~(pad.ok /\ ns.ok /\ rev.ok) THEN EofErr
                ELSE
                LET tg == ReadTarget(s, mt.val)
                IN  IF tg.res.kind # "Ok" THEN tg.res
                    ELSE
                    LET ut == ReadUrlTitle(s, tg.pos, checks)
                    IN  IF ut.kind # "Ok" THEN ut
                        ELSE Ok([mime_type |-> mt.val,
                                 namespace |-> ns.val[1],
                                 revision  |-> rev.val,
                                 url       |-> ut.val.url,
                                 title     |-> ut.val.title,
                                 target    |-> tg.res.val])

----------------------------------------------------------------------------
(* MmapView (memmap): a window [off, off + len) of the mapped file          *)

\* MmapView::restrict(offset, len) -> io::Result<()>: narrows the view when
\* the range lies inside it, and otherwise returns Err and leaves the view
\* as it was.  The callers discard the result.
Restrict(view, offset, len) ==
    IF offset + len > view.len THEN view
    ELSE [off |-> view.off + offset, len |-> len]

MasterView(f) == [off |-> 0, len |-> Len(f)]

\* MmapView::as_slice
AsSlice(f, view) == SubSeq(f, view.off + 1, view.off + view.len)

----------------------------------------------------------------------------
(* Cluster::new(zim, idx) and Cluster::get_blob(&self, idx)                 *)

\* The first byte of an .xz stream (FD 37 7A 58 5A 00).
XZ_MAGIC == 253

\* xz_decom::decompress, an external codec, stood in for by a small codec
\* that is not the identity: a stream is the byte XZ_MAGIC followed by the
\* payload with every byte raised by one (mod 256); anything else is an
\* XZError.
decompress(bytes) ==
    IF Len(bytes) >= 1 /\ bytes[1] = XZ_MAGIC
    THEN Ok([i \in 1..(Len(bytes) - 1) |-> (bytes[i + 1] + 255) % 256])
    ELSE Err("Error decoding compressed data")

\* The tag of an LZMA2/xz-compressed cluster.
COMP_XZ == 4

\* let data = if comp_type == 4 { try!(decompress(..)) } else { Vec::from(..) }
ClusterData(comp_type, raw) ==
    IF comp_type = COMP_XZ THEN decompress(raw) ELSE Ok(raw)

RECURSIVE ReadBlobListGt(_, _, _)
\* The loop ending on offset > datalen instead of offset >= datalen.
ReadBlobListGt(data, pos, acc) ==
    LET r == ReadExact(data, pos, 4)
    IN  IF ~r.ok THEN EofErr
        ELSE IF AsUsize(r.val) > Len(data) THEN Ok(Append(acc, r.val))
        ELSE ReadBlobListGt(data, r.pos, Append(acc, r.val))

RECURSIVE ReadBlobList(_, _, _)
\* loop { offset = try!(read_u32); push(offset); if offset >= datalen { break } }
ReadBlobList(data, pos, acc) ==
    LET r == ReadExact(data, pos, 4)
    IN  IF ~r.ok THEN EofErr
        ELSE IF AsUsize(r.val) >= Len(data) THEN Ok(Append(acc, r.val))
        ELSE ReadBlobList(data, r.pos, Append(acc, r.val))

Cluster_new(f, z, idx) ==
    LET this_cluster_off == z.cluster_list[idx + 1]
        next_cluster_off == IF idx < Len(z.cluster_list) - 1
                            THEN z.cluster_list[idx + 2]
                            ELSE z.checksum_off
    IN  IF ~(next_cluster_off > this_cluster_off)
        THEN Panic("assertion failed: next_cluster_off > this_cluster_off")
        ELSE
        LET total_cluster_size == next_cluster_off - this_cluster_off
            slice == AsSlice(f, Restrict(MasterView(f), this_cluster_off,
                                         total_cluster_size))
        IN  IF Len(slice) = 0 \/ total_cluster_size > Len(slice)
            THEN Panic("index out of bounds")
            ELSE
            LET comp_type == slice[1]
                data == ClusterData(comp_type, SubSeq(slice, 2, total_cluster_size))
            IN  IF data.kind # "Ok" THEN data
                ELSE
                LET bl == ReadBlobList(data.val, 0, <<>>)
                IN  IF bl.kind # "Ok" THEN bl
                    ELSE Ok([comp_type |-> comp_type,
                             start_off |-> this_cluster_off,
                             end_off   |-> next_cluster_off,
                             data      |-> data.val,
                             blob_list |-> bl.val])

\* get_blob without the look at the next offset: every blob runs to the end.
get_blob_to_end(c, idx) ==
    LET this_blob_off == AsUsize(c.blob_list[idx + 1])
    IN  IF this_blob_off > Len(c.data) THEN Panic("slice index out of range")
        ELSE Ok(SubSeq(c.data, this_blob_off + 1, Len(c.data)))

\* pub fn get_blob(&self, idx: u32) -> &[u8], idx a valid index of blob_list
get_blob(c, idx) ==
    LET this_blob_off == AsUsize(c.blob_list[idx + 1])
    IN  IF Len(c.blob_list) > idx + 1
        THEN LET next_blob_off == AsUsize(c.blob_list[idx + 2])
             IN  IF this_blob_off > next_blob_off \/ next_blob_off > Len(c.data)
                 THEN Panic("slice index out of range")
                 ELSE Ok(SubSeq(c.data, this_blob_off + 1, next_blob_off))
        ELSE IF this_blob_off > Len(c.data)
             THEN Panic("slice index out of range")
             ELSE Ok(SubSeq(c.data, this_blob_off + 1, Len(c.data)))

----------------------------------------------------------------------------
(* Zim::new(path) -> Result<Zim, ParsingError>                              *)

\* The magic number of a ZIM file, "ZIM\x04" read as a little-endian u32.
ZIM_MAGIC == 72173914
\* The offset of the mime table: the size of the header.
HEADER_SIZE == 80

\* The literals the header's page indices are compared with, as written in
\* the source, least significant byte first: 0xffffffff and 0xffffffffff.
MAIN_PAGE_NONE_LITERAL == <<255, 255, 255, 255>>
LAYOUT_PAGE_NONE_LITERAL == <<255, 255, 255, 255, 255>>

\* An integer literal at type u32: its low 32 bits.
LiteralAsU32(lit) == SubSeq(lit, 1, 4)

\* main_page_idx: if main_page == 0xffffffff { None } else { Some(main_page) }
MainPageIdx(main_page) ==
    IF main_page = LiteralAsU32(MAIN_PAGE_NONE_LITERAL) THEN None ELSE Some(main_page)

\* The comparison of layout_page with the literal taken at its written
\* width (40 bits) instead of at the width of a u32.
LayoutPageIdxWide(layout_page) ==
    IF layout_page \o <<0>> = LAYOUT_PAGE_NONE_LITERAL THEN None ELSE Some(layout_page)

\* layout_page_idx: if layout_page == 0xffffffffff { None } else { Some(layout_page) }
\* The literal has the type of layout_page, u32, and so the value of its
\* low 32 bits.
LayoutPageIdx(layout_page) ==
    IF layout_page = LiteralAsU32(LAYOUT_PAGE_NONE_LITERAL) THEN None
    ELSE Some(layout_page)

RECURSIVE ReadMimeTable(_, _, _)
\* loop { if let Ok(size) = read_until(0, ..) { if size <= 1 { break; }
\*        truncate(size - 1); push(try!(String::from_utf8(..))) } }
ReadMimeTable(s, pos, acc) ==
    LET r == ReadUntil(s, pos, 0)
    IN  IF r.size <= 1 THEN Ok(acc)
        ELSE LET name == SubSeq(r.vec, 1, r.size - 1)
             IN  IF Utf8Valid(name) THEN ReadMimeTable(s, r.pos, Append(acc, name))
                 ELSE Err("Error converting to string")

RECURSIVE ReadTable(_, _, _, _, _)
\* for _ in 0..count { list.push(try!(cur.read_uN())) }: count integers of
\* width bytes each from the slice s.
ReadTable(s, pos, count, width, acc) ==
    IF count = 0 THEN Ok(acc)
    ELSE LET r == ReadExact(s, pos, width)
         IN  IF ~r.ok THEN EofErr
             ELSE ReadTable(s, r.pos, count - 1, width, Append(acc, AsUsize(r.val)))

\* One offset table: the view restricted to (pos, count * 8) and count
\* integers of the given width read from it.
LoadTable(f, pos, count, width) ==
    ReadTable(AsSlice(f, Restrict(MasterView(f), pos, count * 8)), 0, count, width, <<>>)

\* The header field of n bytes at offset off (the file is at least
\* HEADER_SIZE long where this is used).
Field(f, off, n) == SubSeq(f, off + 1, off + n)

\* The end of the last header field the cursor must have read when the
\* assertion on mime_list_pos is evaluated.
MIME_POS_END == 64

\* The result of Zim::new and the number of offset tables it had loaded.
Zim_new(f) ==
    IF Len(f) < 4 THEN [res |-> EofErr, loaded |-> 0]
    ELSE IF Field(f, 0, 4) # LE(ZIM_MAGIC, 4)
    THEN [res |-> Panic("assertion failed: magic == 72173914"), loaded |-> 0]
    ELSE IF Len(f) < MIME_POS_END THEN [res |-> EofErr, loaded |-> 0]
    ELSE IF Field(f, 56, 8) # LE(HEADER_SIZE, 8)
    THEN [res |-> Panic("assertion failed: mime_list_pos == 80"), loaded |-> 0]
    ELSE IF Len(f) < HEADER_SIZE THEN [res |-> EofErr, loaded |-> 0]
    ELSE
    LET article_count   == AsUsize(Field(f, 24, 4))
        cluster_count   == AsUsize(Field(f, 28, 4))
        url_ptr_pos     == AsUsize(Field(f, 32, 8))
        title_ptr_pos   == AsUsize(Field(f, 40, 8))
        cluster_ptr_pos == AsUsize(Field(f, 48, 8))
        mime_table      == ReadMimeTable(f, HEADER_SIZE, <<>>)
    IN  IF mime_table.kind # "Ok" THEN [res |-> mime_table, loaded |-> 0]
        ELSE
        LET url_list == LoadTable(f, url_ptr_pos, article_count, 8)
        IN  IF url_list.kind # "Ok" THEN [res |-> url_list, loaded |-> 0]
            ELSE
            LET article_list == LoadTable(f, title_ptr_pos, article_count, 4)
            IN  IF article_list.kind # "Ok" THEN [res |-> article_list, loaded |-> 1]
                ELSE
                LET cluster_list == LoadTable(f, cluster_ptr_pos, cluster_count, 8)
                IN  IF cluster_list.kind # "Ok"
                    THEN [res |-> cluster_list, loaded |-> 2]
                    ELSE [res |-> Ok([
                            version         |-> Field(f, 4, 4),
                            article_count   |-> article_count,
                            cluster_count   |-> cluster_count,
                            url_tbl_off     |-> url_ptr_pos,
                            title_tbl_off   |-> title_ptr_pos,
                            cluster_tbl_off |-> cluster_ptr_pos,
                            mime_tbl_off    |-> AsUsize(Field(f, 56, 8)),
                            main_page_idx   |-> MainPageIdx(Field(f, 64, 4)),
                            layout_page_idx |-> LayoutPageIdx(Field(f, 68, 4)),
                            checksum_off    |-> AsUsize(Field(f, 72, 8)),
                            mime_table      |-> mime_table.val,
                            url_list        |-> url_list.val,
                            article_list    |-> article_list.val,
                            cluster_list    |-> cluster_list.val]),
                          loaded |-> 3]

----------------------------------------------------------------------------
(* The archive files of the model: ZIM files written field by field, well   *)
(* formed or damaged in one place.                                          *)

RECURSIVE Concat(_)
Concat(ss) == IF ss = <<>> THEN <<>> ELSE Head(ss) \o Concat(Tail(ss))

RECURSIVE Starts(_, _)
\* The offsets at which the items of ss begin when laid out from `at`.
Starts(ss, at) ==
    IF ss = <<>> THEN <<>> ELSE <<at>> \o Starts(Tail(ss), at + Len(Head(ss)))

\* A directory entry as a ZIM writer lays it out: the payload after the
\* revision is 4 bytes for a redirect, none for a link target or a deleted
\* entry, and cluster and blob number otherwise.
EntryBytes(e) ==
    LE(e.mime, 2) \o <<0, e.ns>> \o e.rev
    \o (IF e.mime = MIME_REDIRECT THEN e.a
        ELSE IF e.mime \in {MIME_LINKTARGET, MIME_DELETED} THEN <<>>
        ELSE e.a \o e.b)
    \o e.url \o <<0>> \o e.title \o <<0>>

\* The inverse of the stand-in codec's decompress.
XzCompress(body) == <<XZ_MAGIC>> \o [i \in 1..Len(body) |-> (body[i] + 1) % 256]

\* A cluster as a ZIM writer lays it out: the tag, then the body (the blob
\* offsets, then the blobs), compressed when the tag says so.
ClusterBytes(c) ==
    LET body == Concat([i \in 1..Len(c.offsets) |-> LE(c.offsets[i], 4)]) \o c.payload
    IN  <<c.tag>> \o (IF c.tag = COMP_XZ /\ c.packed THEN XzCompress(body) ELSE body)

\* The file with the given header fields, mime names, clusters and entries,
\* with its last `cut` bytes missing.  The clusters follow the tables and
\* the entries follow the clusters; checksum_off is the end of the last
\* cluster unless p.checksumAtLast puts it at the start of the last one,
\* and p.swapClusters writes the first two cluster offsets in reverse.
BuildFile(p) ==
    LET mimeBytes == Concat([i \in 1..Len(p.mimes) |-> p.mimes[i] \o <<0>>]) \o <<0>>
        A == Len(p.entries)
        C == Len(p.clusters)
        urlTbl == HEADER_SIZE + Len(mimeBytes)
        titleTbl == urlTbl + 8 * A
        clusterTbl == titleTbl + 4 * A
        clusterAt == Starts(p.clusters, clusterTbl + 8 * C)
        clustersEnd == clusterTbl + 8 * C + Len(Concat(p.clusters))
        entryAt == Starts(p.entries, clustersEnd)
        clusterPtr == IF p.swapClusters /\ C >= 2
                      THEN <<clusterAt[2], clusterAt[1]>> \o SubSeq(clusterAt, 3, C)
                      ELSE clusterAt
        checksum == IF p.checksumAtLast /\ C >= 1 THEN clusterAt[C] ELSE clustersEnd
        all == LE(p.magic, 4) \o LE(5, 4) \o LE(0, 8) \o LE(0, 8)
               \o LE(A, 4) \o LE(C, 4)
               \o LE(urlTbl, 8) \o LE(titleTbl, 8) \o LE(clusterTbl, 8)
               \o LE(p.mimePos, 8) \o p.mainPage \o p.layoutPage \o LE(checksum, 8)
               \o mimeBytes
               \o Concat([i \in 1..A |-> LE(entryAt[i] + p.urlShift, 8)])
               \o Concat([i \in 1..A |-> LE(i - 1, 4)])
               \o Concat([i \in 1..C |-> LE(clusterPtr[i], 8)])
               \o Concat(p.clusters) \o Concat(p.entries)
    IN  SubSeq(all, 1, Len(all) - p.cut)

\* The bounds of the files of the model.
MaxArticles == 3
MaxCut == 5
MaxOffsets == 3
MaxPayload == 2
\* The number of next() calls followed on one iterator.
MaxNextCalls == 5

U32(n) == LE(n, 4)
NoPage == <<255, 255, 255, 255>>

\* Two mime types, "a" and "b": the ids 0 and 1 are in the table.
BaseMimes == << <<97>>, <<98>> >>

Entry(mime, url, title) ==
    [mime |-> mime, ns |-> 65, rev |-> U32(9), a |-> U32(7), b |-> U32(3),
     url |-> url, title |-> title]

GoodEntry == EntryBytes(Entry(0, <<117>>, <<116>>))
GoodCluster ==
    ClusterBytes([tag |-> 0, packed |-> FALSE, offsets |-> <<8, 10>>,
                  payload |-> <<120, 121>>])

BaseFile ==
    [magic |-> ZIM_MAGIC, mimePos |-> HEADER_SIZE, mainPage |-> NoPage,
     layoutPage |-> NoPage, mimes |-> BaseMimes, entries |-> <<GoodEntry>>,
     clusters |-> <<GoodCluster>>, swapClusters |-> FALSE,
     checksumAtLast |-> FALSE, urlShift |-> 0, cut |-> 0]

\* Header fields: the magic right or wrong, the mime table offset right or
\* wrong, the page indices absent or present.
PageVals == {NoPage, U32(0), <<254, 255, 255, 255>>, <<255, 255, 0, 0>>}
HeaderFiles ==
    {BuildFile([BaseFile EXCEPT !.magic = m, !.mimePos = mp, !.mainPage = mn,
                                !.layoutPage = ly]) :
        m \in {ZIM_MAGIC, ZIM_MAGIC + 1}, mp \in {HEADER_SIZE, HEADER_SIZE + 1},
        mn \in PageVals, ly \in PageVals}

\* Files that end inside the header.
ShortFiles ==
    {SubSeq(BuildFile([BaseFile EXCEPT !.magic = m, !.mimePos = mp]), 1, n) :
        m \in {ZIM_MAGIC, ZIM_MAGIC + 1}, mp \in {HEADER_SIZE, HEADER_SIZE + 1},
        n \in {3, 60, 70}}

\* One directory entry of every kind of mime id (2 and 65532 are in no
\* table), with plain, multi-byte and ill-formed strings, in a file whose
\* end is missing: the strings lose their terminators one by one.
MimeIds == {MIME_REDIRECT, MIME_LINKTARGET, MIME_DELETED, 0, 1, 2, 65532}
Urls == {<<>>, <<117>>, <<195, 169>>, <<255>>}
Titles == {<<>>, <<116>>, <<195>>}
OneEntryFiles ==
    {BuildFile([BaseFile EXCEPT !.entries = <<EntryBytes(Entry(m, u, ti))>>,
                                !.clusters = <<>>, !.cut = k]) :
        m \in MimeIds, u \in Urls, ti \in Titles, k \in 0..MaxCut}

\* Several entries, readable or not, for the iterator to walk.
WalkEntries ==
    {EntryBytes(Entry(0, <<117>>, <<116>>)),
     EntryBytes(Entry(MIME_REDIRECT, <<118>>, <<>>)),
     EntryBytes(Entry(2, <<119>>, <<116>>)),
     EntryBytes(Entry(1, <<255>>, <<116>>))}
RECURSIVE SeqsOf(_, _)
\* The sequences of length n over S.
SeqsOf(S, n) ==
    IF n = 0 THEN {<<>>}
    ELSE {Append(s, x) : s \in SeqsOf(S, n - 1), x \in S}
SeqsUpTo(S, lo, hi) == UNION {SeqsOf(S, n) : n \in lo..hi}
WalkFiles ==
    {BuildFile([BaseFile EXCEPT !.entries = es, !.clusters = <<>>]) :
        es \in SeqsUpTo(WalkEntries, 0, MaxArticles)}

\* An entry whose URL pointer lies past the end of the file.
StrayFiles == {BuildFile([BaseFile EXCEPT !.clusters = <<>>, !.urlShift = 100])}

\* One cluster of every tag, with offset lists that are well formed, out of
\* order, past the body or without an end, stored or compressed.
Tags == {0, 1, 2, COMP_XZ}
OffVals == {0, 8, 10, 16}
Payloads == {SubSeq(<<120, 121, 122, 123, 124>>, 1, n) : n \in 0..MaxPayload}
ClusterVariants ==
    {ClusterBytes([tag |-> tg, packed |-> pk, offsets |-> os, payload |-> pl]) :
        tg \in Tags, pk \in BOOLEAN, os \in SeqsUpTo(OffVals, 0, MaxOffsets),
        pl \in Payloads}
OneClusterFiles ==
    {BuildFile([BaseFile EXCEPT !.entries = <<>>, !.clusters = <<c>>]) :
        c \in ClusterVariants}

\* Cluster offsets that do not increase: the first two in reverse order, or
\* the checksum offset at the start of the last cluster.
PointerFiles ==
    {BuildFile([BaseFile EXCEPT !.clusters = cs, !.swapClusters = sw,
                                !.checksumAtLast = ck]) :
        cs \in {<<GoodCluster>>, <<GoodCluster, GoodCluster>>},
        sw \in BOOLEAN, ck \in BOOLEAN}

Files == HeaderFiles \cup ShortFiles \cup OneEntryFiles \cup WalkFiles
         \cup StrayFiles \cup OneClusterFiles \cup PointerFiles

----------------------------------------------------------------------------
(* The state machine: a program that opens one archive and calls the       *)
(* public functions of the crate on it.                                     *)

NoZim == [opened |-> FALSE]
NoIter == [active |-> FALSE, max_articles |-> 0, article_to_yield |-> 0,
           calls |-> 0, yields |-> 0, ended |-> FALSE, lastres |-> "fresh"]
NoCluster == [held |-> FALSE]
NoCall == [op |-> "none", arg |-> 0, slice |-> <<>>, res |-> None]

Call(op, arg, slice, res) == [op |-> op, arg |-> arg, slice |-> slice, res |-> res]

\* After a call that returned r the program goes on, after a panic it does not.
StatusAfter(r) == IF r.kind = "Panic" THEN "panic" ELSE "open"

Init ==
    /\ file \in Files
    /\ overflowChecks \in BOOLEAN
    /\ status = "unopened"
    /\ zim = NoZim
    /\ tablesLoaded = 0
    /\ iter = NoIter
    /\ cluster = NoCluster
    /\ blobs = <<>>
    /\ last = NoCall

\* let zim = Zim::new(path)
Open ==
    /\ status = "unopened"
    /\ LET r == Zim_new(file)
       IN  /\ status' = (IF r.res.kind = "Ok" THEN "open"
                         ELSE IF r.res.kind = "Err" THEN "error" ELSE "panic")
           /\ zim' = (IF r.res.kind = "Ok" THEN r.res.val ELSE NoZim)
           /\ tablesLoaded' = r.loaded
           /\ last' = Call("Zim::new", 0, <<>>,
                           IF r.res.kind = "Ok" THEN Ok("Zim") ELSE r.res)
    /\ UNCHANGED <<file, overflowChecks, iter, cluster, blobs>>

\* What the memory past the end of the mapping may hold when it is read.
StrayMemory == {<<>>, GoodEntry}

\* The slice from entry_offset to the end of the file, as get_by_url_index
\* and DirectoryIterator::next take it: restrict(entry_offset,
\* len - entry_offset) and as_slice.  With entry_offset past the end the
\* subtraction overflows: a panic in a build with overflow checks; in a
\* build without, the view is placed outside the mapping and reading it is
\* undefined: a fault or whatever bytes are there.
EntrySlices(f, entry_offset, checks) ==
    IF entry_offset <= Len(f) THEN {Ok(SubSeq(f, entry_offset + 1, Len(f)))}
    ELSE IF checks THEN {Panic("attempt to subtract with overflow")}
    ELSE {Panic("segmentation fault")} \cup {Ok(m) : m \in StrayMemory}

\* DirectoryEntry::new(self, slice).ok() on one of the possible slices.
EntryLookup(z, sl, checks) ==
    IF sl.kind = "Panic" THEN sl
    ELSE ResultOk(DirectoryEntry_new(z.mime_table, sl.val, checks))

SliceOf(sl) == IF sl.kind = "Ok" THEN sl.val ELSE <<>>

\* zim.get_by_url_index(idx), idx below article_count
GetByUrlIndex(idx) ==
    /\ status = "open"
    /\ idx < zim.article_count
    /\ \E sl \in EntrySlices(file, zim.url_list[idx + 1], overflowChecks) :
         LET r == EntryLookup(zim, sl, overflowChecks)
         IN  /\ last' = Call("get_by_url_index", idx, SliceOf(sl), r)
             /\ status' = StatusAfter(r)
    /\ UNCHANGED <<file, overflowChecks, zim, tablesLoaded, iter, cluster, blobs>>

\* let it = zim.iterate_by_urls()
IterateByUrls ==
    /\ status = "open"
    /\ iter' = [NoIter EXCEPT !.active = TRUE, !.max_articles = zim.article_count]
    /\ last' = Call("iterate_by_urls", 0, <<>>, None)
    /\ UNCHANGED <<file, overflowChecks, status, zim, tablesLoaded, cluster, blobs>>

\* The cursor incremented by every call, the calls at the end included.
NextCursorAlways(it) == it.article_to_yield + 1

\* self.article_to_yield after next(): incremented before the entry is
\* decoded, left alone at the end.
NextCursor(it) ==
    IF it.article_to_yield >= it.max_articles THEN it.article_to_yield
    ELSE it.article_to_yield + 1

\* What next() returns: None at the end, else the entry at the cursor
\* decoded from one of the possible slices, or None when that fails.
NextResult(z, it, sl, checks) ==
    IF it.article_to_yield >= it.max_articles THEN None
    ELSE EntryLookup(z, sl, checks)

\* it.next()
IterNext ==
    /\ status = "open"
    /\ iter.active
    /\ iter.calls < MaxNextCalls
    /\ \E sl \in (IF iter.article_to_yield >= iter.max_articles THEN {Ok(<<>>)}
                  ELSE EntrySlices(file, zim.url_list[iter.article_to_yield + 1],
                                   overflowChecks)) :
         LET r == NextResult(zim, iter, sl, overflowChecks)
         IN  /\ iter' = [iter EXCEPT
                           !.article_to_yield = NextCursor(iter),
                           !.calls = @ + 1,
                           !.yields = IF r.kind = "Some" THEN @ + 1 ELSE @,
                           !.ended = @ \/ iter.lastres = "None",
                           !.lastres = r.kind]
             /\ last' = Call("next", iter.article_to_yield, SliceOf(sl), r)
             /\ status' = StatusAfter(r)
    /\ UNCHANGED <<file, overflowChecks, zim, tablesLoaded, cluster, blobs>>

\* let cluster = zim.get_cluster(idx), idx below cluster_count
GetCluster(idx) ==
    /\ status = "open"
    /\ idx < zim.cluster_count
    /\ LET r == ResultOk(Cluster_new(file, zim, idx))
       IN  /\ last' = Call("get_cluster", idx, <<>>, r)
           /\ status' = StatusAfter(r)
           /\ cluster' = (IF r.kind = "Some" THEN [held |-> TRUE, c |-> r.val]
                          ELSE NoCluster)
           /\ blobs' = <<>>
    /\ UNCHANGED <<file, overflowChecks, zim, tablesLoaded, iter>>

\* cluster.get_blob(idx) for the blobs in order, idx an index of blob_list
GetBlob ==
    /\ status = "open"
    /\ cluster.held
    /\ Len(blobs) < Len(cluster.c.blob_list)
    /\ LET idx == Len(blobs)
           r == get_blob(cluster.c, idx)
       IN  /\ last' = Call("get_blob", idx, <<>>, r)
           /\ status' = StatusAfter(r)
           /\ blobs' = Append(blobs, r)
    /\ UNCHANGED <<file, overflowChecks, zim, tablesLoaded, iter, cluster>>

Next ==
    \/ Open
    \/ \E idx \in 0..(MaxArticles + 1) : GetByUrlIndex(idx)
    \/ IterateByUrls
    \/ IterNext
    \/ \E idx \in 0..1 : GetCluster(idx)
    \/ GetBlob

Spec == Init /\ [][Next]_vars

----------------------------------------------------------------------------
(* The properties                                                           *)

\* The last call decoded a directory entry from last.slice.
DecodeCall ==
    \/ last.op = "get_by_url_index"
    \/ last.op = "next" /\ last.arg < zim.article_count

\* C1: once next() has returned None on an iterator (at the end, or on an
\* entry that does not decode), every later next() on it returns None.
C1_StopsPermanently == (iter.active /\ iter.ended) => iter.lastres = "None"

\* The offsets of the cluster held, and its body.
BlobList == cluster.c.blob_list
Body == cluster.c.data

\* C2, as claimed: the blob-offset list of a decoded cluster is
\* non-decreasing and its last element equals the length of the body.
C2_SortedAndExact ==
    cluster.held =>
        /\ Len(BlobList) >= 1
        /\ \A i \in 1..(Len(BlobList) - 1) : LeLE(BlobList[i], BlobList[i + 1])
        /\ AsUsize(BlobList[Len(BlobList)]) = Len(Body)

\* C2, amended: the list is not empty, every element before the last is
\* below the length of the body, and the last is at or above it (so the last
\* element is the largest).
C2_LastIsFirstPastBody ==
    cluster.held =>
        /\ Len(BlobList) >= 1
        /\ \A i \in 1..(Len(BlobList) - 1) :
              /\ AsUsize(BlobList[i]) < Len(Body)
              /\ LtLE(BlobList[i], BlobList[Len(BlobList)])
        /\ AsUsize(BlobList[Len(BlobList)]) >= Len(Body)

\* A cluster whose last offset lies past the body and whose offsets are out
\* of order.
C2_Witness ==
    /\ cluster.held
    /\ Len(BlobList) >= 3
    /\ AsUsize(BlobList[Len(BlobList)]) > Len(Body)
    /\ LtLE(BlobList[2], BlobList[1])

\* The length blob i (counted from 1) has by the offsets.
BlobLen(i) ==
    IF i < Len(BlobList) THEN AsUsize(BlobList[i + 1]) - AsUsize(BlobList[i])
    ELSE Len(Body) - AsUsize(BlobList[i])

\* The offsets around blob i are in order and inside the body.
BlobInBody(i) ==
    IF i < Len(BlobList)
    THEN /\ AsUsize(BlobList[i]) <= AsUsize(BlobList[i + 1])
         /\ AsUsize(BlobList[i + 1]) <= Len(Body)
    ELSE AsUsize(BlobList[i]) <= Len(Body)

BlobsJoined == Concat([i \in 1..Len(blobs) |-> blobs[i].val])

\* C3, as claimed: get_blob returns, for every index of the offset list, a
\* slice of the length the offsets give, and the blobs joined in order are
\* the whole body.
C3_BlobsAreTheBody ==
    cluster.held =>
        /\ \A i \in 1..Len(blobs) :
              blobs[i].kind = "Ok" /\ Len(blobs[i].val) = BlobLen(i)
        /\ Len(blobs) = Len(BlobList) => BlobsJoined = Body

\* C3, amended: get_blob returns exactly when the offsets around the blob
\* are in order and inside the body (it panics otherwise), the slice then
\* has the length the offsets give, and when every get_blob has returned the
\* blobs joined in order are the body from its first blob offset on.
C3_BlobsAreTheBodyPastTheOffsets ==
    cluster.held =>
        /\ \A i \in 1..Len(blobs) :
              /\ blobs[i].kind = "Ok" <=> BlobInBody(i)
              /\ blobs[i].kind = "Ok" => Len(blobs[i].val) = BlobLen(i)
        /\ (Len(blobs) = Len(BlobList) /\ \A i \in 1..Len(blobs) : blobs[i].kind = "Ok")
              => BlobsJoined = SubSeq(Body, AsUsize(BlobList[1]) + 1, Len(Body))

\* Every blob of a cluster with a non-empty first blob has been taken, and
\* the body begins with the offsets, which belong to no blob.
C3_Witness ==
    /\ cluster.held
    /\ Len(BlobList) >= 2
    /\ Len(blobs) = Len(BlobList)
    /\ \A i \in 1..Len(blobs) : blobs[i].kind = "Ok"
    /\ Len(blobs[1].val) > 0
    /\ AsUsize(BlobList[1]) > 0

\* The offsets between which cluster idx lies, by the cluster table.
ClusterStartOf(idx) == zim.cluster_list[idx + 1]
ClusterEndOf(idx) ==
    IF idx + 1 < zim.cluster_count THEN zim.cluster_list[idx + 2] ELSE zim.checksum_off

\* C4: get_cluster on a cluster whose end is not past its start reports a
\* failure for that call, and the program goes on using the archive.
C4_EmptyClusterIsAnError ==
    (last.op = "get_cluster" /\ ClusterEndOf(last.arg) <= ClusterStartOf(last.arg))
        => (last.res.kind = "None" /\ status = "open")

\* The header's magic number or mime table offset is there and is wrong.
BadMagic == Len(file) >= 4 /\ SubSeq(file, 1, 4) # <<90, 73, 77, 4>>
BadMimePos == Len(file) >= 64 /\ SubSeq(file, 57, 64) # <<80, 0, 0, 0, 0, 0, 0, 0>>

\* C5: opening a file with a wrong magic number or a wrong mime table
\* offset returns an error, with no offset table loaded.
C5_BadHeaderIsAnError ==
    (status # "unopened" /\ (BadMagic \/ BadMimePos))
        => (status = "error" /\ tablesLoaded = 0)

\* Where the URL string of the entry in slice s begins, by its mime id.
MimeIdOf(s) == s[1] + 256 * s[2]
UrlStartOf(s) ==
    IF MimeIdOf(s) = 65535 THEN 12
    ELSE IF MimeIdOf(s) \in {65534, 65533} THEN 8 ELSE 16
\* The positions of the zero bytes of s after the first `from` bytes.
ZerosFrom(s, from) == {j \in (from + 1)..Len(s) : s[j] = 0}
\* The n-th of them.
RECURSIVE NthZero(_, _, _)
NthZero(s, from, n) ==
    IF n = 1 THEN Min(ZerosFrom(s, from))
    ELSE NthZero(s, Min(ZerosFrom(s, from)), n - 1)

\* C6: decoding an entry whose URL or title has no terminator before the
\* slice ends returns no entry, and the url and title of an entry returned
\* are the bytes before each terminator.
C6_UnterminatedIsAnError ==
    (DecodeCall /\ last.res.kind = "Some") =>
        LET s == last.slice
            from == UrlStartOf(s)
        IN  /\ Cardinality(ZerosFrom(s, from)) >= 2
            /\ last.res.val.url = SubSeq(s, from + 1, NthZero(s, from, 1) - 1)
            /\ last.res.val.title =
                   SubSeq(s, NthZero(s, from, 1) + 1, NthZero(s, from, 2) - 1)

\* C7, in every state: the cursor is 0 before the first call, lies between
\* the yields so far and article_count, and a call after the
\* article_count-th has returned None.
C7_CursorInv ==
    iter.active =>
        /\ iter.max_articles = zim.article_count
        /\ iter.calls = 0 => iter.article_to_yield = 0
        /\ iter.article_to_yield >= 0
        /\ iter.article_to_yield <= zim.article_count
        /\ iter.yields <= iter.article_to_yield
        /\ iter.calls > zim.article_count => iter.lastres = "None"

\* C7, in every step: a next() call below article_count moves the cursor by
\* one, whatever the decoding gives, and yields at most one entry; a call at
\* article_count leaves it and yields none.
C7_CursorStep ==
    (iter.active /\ iter'.calls = iter.calls + 1) =>
        IF iter.article_to_yield < zim.article_count
        THEN /\ iter'.article_to_yield = iter.article_to_yield + 1
             /\ iter'.yields \in {iter.yields, iter.yields + 1}
        ELSE /\ iter'.article_to_yield = iter.article_to_yield
             /\ iter'.yields = iter.yields
             /\ iter'.lastres = "None"

\* C7: the cursor of a DirectoryIterator.
C7_CursorBounded == [](C7_CursorInv) /\ [][C7_CursorStep]_vars

\* An iterator called past the end of three entries, one of which did not
\* decode.
C7_Witness ==
    /\ iter.active
    /\ zim.article_count >= 3
    /\ iter.calls > zim.article_count
    /\ iter.yields >= 1
    /\ iter.yields < iter.article_to_yield

AllOnes(b) == \A i \in 1..4 : b[i] = 255
PageIndex(b) == IF AllOnes(b) THEN None ELSE Some(b)

\* C8: a main_page or layout_page field of 0xFFFFFFFF gives None, any other
\* value v gives Some(v).
C8_AbsentPages ==
    status = "open" =>
        /\ zim.main_page_idx = PageIndex(SubSeq(file, 65, 68))
        /\ zim.layout_page_idx = PageIndex(SubSeq(file, 69, 72))

\* An archive opened with no layout page and with a main page.
C8_Witness ==
    /\ status = "open"
    /\ AllOnes(SubSeq(file, 69, 72))
    /\ ~AllOnes(SubSeq(file, 65, 68))

\* C9: a cluster decodes only with tag 0, 1 or 4: the body is the bytes
\* after the tag, decompressed with tag 4 and as they are with tag 0 or 1.
C9_OnlyKnownTags ==
    (/\ last.op = "get_cluster"
     /\ ClusterStartOf(last.arg) < ClusterEndOf(last.arg)
     /\ ClusterEndOf(last.arg) <= Len(file))
        => LET tag == file[ClusterStartOf(last.arg) + 1]
               raw == SubSeq(file, ClusterStartOf(last.arg) + 2, ClusterEndOf(last.arg))
           IN  /\ tag \notin {0, 1, 4} => last.res.kind = "None"
               /\ last.res.kind = "Some" =>
                     IF tag = 4 THEN decompress(raw) = Ok(last.res.val.data)
                     ELSE last.res.val.data = raw

\* The string str lies in s right after the first `from` bytes, and what
\* follows it is its terminator or the end of the slice.
StringAt(s, from, str) ==
    /\ from + Len(str) <= Len(s)
    /\ SubSeq(s, from + 1, from + Len(str)) = str
    /\ \A j \in 1..Len(str) : str[j] # 0
    /\ from + Len(str) + 1 < Len(s) => s[from + Len(str) + 1] = 0

\* C10: the target of a decoded entry follows from its mime id alone: a
\* redirect to the u32 at bytes 8..12 for 0xFFFF, none for 0xFFFE and
\* 0xFFFD, the cluster and blob numbers at bytes 8..16 for an id in the mime
\* table, with the URL right after; no other id decodes.
C10_TargetByMimeId ==
    (DecodeCall /\ last.res.kind = "Some") =>
        LET s == last.slice
            e == last.res.val
        IN  IF MimeIdOf(s) = 65535
            THEN /\ e.target = Some(TargetRedirect(SubSeq(s, 9, 12)))
                 /\ StringAt(s, 12, e.url)
            ELSE IF MimeIdOf(s) \in {65534, 65533}
            THEN /\ e.target = None
                 /\ StringAt(s, 8, e.url)
            ELSE /\ MimeIdOf(s) < Len(zim.mime_table)
                 /\ e.target = Some(TargetCluster(SubSeq(s, 9, 12), SubSeq(s, 13, 16)))
                 /\ StringAt(s, 16, e.url)

\* A redirect has been decoded, with a URL that is not empty.
C10_Witness ==
    /\ DecodeCall
    /\ last.res.kind = "Some"
    /\ MimeIdOf(last.slice) = 65535
    /\ last.res.val.target.kind = "Some"
    /\ Len(last.res.val.url) > 0

====
